---- MODULE Spec2Model ----
(***************************************************************************)
(* A model of the VYBIN wellness backend (the richest snapshot of the      *)
(* server: turn-limited continuation, dual-provider geolocation, and       *)
(* context-aware resource search).  Every handler is an async Express      *)
(* route: it runs to its next `await`, is suspended while the outbound     *)
(* call is in flight, and resumes with the outcome of that call.           *)
(***************************************************************************)
EXTENDS Integers, Sequences, FiniteSets, TLC

(***************************************************************************)
(* Bounds of the model.                                                    *)
(***************************************************************************)
\* caller-supplied turn counts are drawn from -MaxTurnInput .. MaxTurnInput
MaxTurnInput == 4
\* continuation requests served in one behaviour
MaxRequests == 5
\* the longest well-formed array the LLM answers with
MaxItems == 6
\* LLM answers of every token sequence up to this length
MaxFreeLen == 2
\* the longest check-in history a caller supplies
MaxHistory == 8
\* requests in flight at the same time
NumSlots == 2

(***************************************************************************)
(* Program constants.                                                      *)
(***************************************************************************)
\* `if (conversationCount >= 2)`
MAX_TURNS == 2
\* max_tokens of the continuation call
ContinueMaxTokens == 800
\* res.json(...) answers with HTTP 200, res.status(500).json(...) with 500
\* resources.slice(0, 4)
MaxResources == 4
\* the curated snapshot: resources.slice(0, 4)
CuratedMaxResources == 4
HttpOk == 200
HttpServerError == 500
\* filter(([dim, rating]) => rating <= 2)
ConcernMax == 2
\* filter(([dim, rating]) => rating >= 4)
StrengthMin == 4
\* userHistory.checkins?.slice(-7)
RecentWindow == 7

VARIABLES
    \* ---- POST /api/continue-conversation ----
    convPc,         \* "idle" | "awaitLLM" | "done": position of the handler
    convBody,       \* req.body of the request being served
    convFrom,       \* which client sent it: "caller" (the check-in's own client) or "other"
    convCount,      \* the destructured conversationCount (default applied)
    convLLMCalls,   \* outbound LLM calls issued for the request being served
    convCall,       \* payload of the outstanding/last LLM call of this request
    convOutcome,    \* outcome of the LLM call of this request
    convRes,        \* the response sent for the request being served
    convResCount,   \* number of responses sent for the request being served
    callerTurn,     \* the turn count the check-in's client persists
    callerTexts,    \* continuation texts the check-in's client has received
    nRequests,      \* continuation requests received so far
    \* ---- POST /api/detect-location ----
    locPc,          \* "idle" | "awaitPrimary" | "awaitSecondary" | "done"
    locReq,         \* the request: forwarding headers and the connection
    locIP,          \* userIP after the clean-up
    locCalls,       \* geolocation providers called for this request, in order
    locPrimary,     \* outcome of the primary call (ip-api.com)
    locSecondary,   \* outcome of the backup call (ipinfo.io)
    locRes,         \* the response sent for this request
    locResCount,    \* number of responses sent for this request
    \* ---- POST /api/search-resources ----
    resPc,          \* "idle" | "awaitLLM" | "done"
    resBody,        \* req.body of the request being served
    resLocation,    \* locationString
    resTerms,       \* contextualSearchTerms
    resCalls,       \* outbound LLM calls issued for this request
    resPrompt,      \* the prompt of the LLM call of this request
    resOutcome,     \* outcome of the LLM call
    resRes,         \* the response sent for this request
    resResCount,    \* number of responses sent for this request
    \* ---- POST /api/search-resources, curated snapshot ----
    curPc,          \* "idle" | "done"
    curBody,        \* req.body of the request served
    curRes,         \* the response sent
    \* ---- POST /api/preliminary-insights and POST /api/wellness-response ----
    insPc,          \* "idle" | "awaitLLM" | "done"
    insOp,          \* "preliminary" | "wellness": the route serving the request
    insBody,        \* req.body of the request being served
    insPrompt,      \* the prompt of the LLM call of this request
    insCalls,       \* outbound LLM calls issued for this request
    insOutcome,     \* outcome of the LLM call
    insRes,         \* the response sent for this request
    insResCount,    \* number of responses sent for this request
    \* ---- requests served concurrently ----
    reqPc,          \* per request: "free" | "awaitLLM" | "done"
    reqOp,          \* per request: "continue" | "search"
    reqBody,        \* per request: req.body
    reqOutcome,     \* per request: outcome of its LLM call
    reqRes,         \* per request: the response sent
    reqOverlapped,  \* per request: another request was suspended while it was served
    frames          \* per invocation of a handler: the locals it holds across its await

convVars == <<convPc, convBody, convFrom, convCount, convLLMCalls, convCall,
              convOutcome, convRes, convResCount, callerTurn, callerTexts, nRequests>>

locVars == <<locPc, locReq, locIP, locCalls, locPrimary, locSecondary, locRes, locResCount>>

resVars == <<resPc, resBody, resLocation, resTerms, resCalls, resPrompt, resOutcome,
             resRes, resResCount, curPc, curBody, curRes>>

insVars == <<insPc, insOp, insBody, insPrompt, insCalls, insOutcome, insRes, insResCount>>

ccVars == <<reqPc, reqOp, reqBody, reqOutcome, reqRes, reqOverlapped, frames>>

vars == <<convVars, locVars, resVars, insVars, ccVars>>

(***************************************************************************)
(* The LLM provider as seen through fetch().                               *)
(***************************************************************************)
NoResponse == [none |-> TRUE]
NoCall == [none |-> TRUE]
NoOutcome == [kind |-> "none"]

LLMTexts == {"text-a", "text-b"}

\* fetch resolves with ok and a well-formed body; resolves with a non-2xx
\* status and an error body; rejects (transport failure); resolves ok with a
\* body that is not JSON or has no content[0].text.
LLMOutcomes ==
    {[kind |-> "ok", text |-> t] : t \in LLMTexts}
    \cup {[kind |-> "httpError", status |-> st, body |-> b] :
            st \in {"401", "529"}, b \in {"invalid x-api-key", "overloaded_error"}}
    \cup {[kind |-> "networkError", message |-> "fetch failed"],
          [kind |-> "malformedBody",
           message |-> "Cannot read properties of undefined (reading '0')"]}

\* error.message of the error the catch block receives:
\* throw new Error(`Claude API error: ${response.status}`), or the message of
\* the rejection
ThrownMessage(outcome) ==
    IF outcome.kind = "httpError" THEN "Claude API error: " \o outcome.status
    ELSE outcome.message

(***************************************************************************)
(* POST /api/continue-conversation                                         *)
(***************************************************************************)
TurnInputs == (0 - MaxTurnInput) .. MaxTurnInput

\* request bodies: with a conversationCount, or without one
ContinueBodies ==
    {[userQuestion |-> "q", conversationCount |-> c] : c \in TurnInputs}
    \cup {[userQuestion |-> "q"]}

\* mutant: the destructuring default is 1 instead of 0
ConversationCountDefaultOne(body) ==
    IF "conversationCount" \in DOMAIN body THEN body.conversationCount ELSE 1

\* const { ..., conversationCount = 0 } = req.body;
ConversationCountOf(body) ==
    IF "conversationCount" \in DOMAIN body THEN body.conversationCount ELSE 0

\* mutant: the limit test is off by one (> instead of >=)
LimitReachedOffByOne(conversationCount) == conversationCount > MAX_TURNS

\* if (conversationCount >= 2)
LimitReached(conversationCount) == conversationCount >= MAX_TURNS

LimitResponse ==
    [status |-> HttpOk, success |-> FALSE,
     error |-> "Conversation limit reached. Upgrade to premium for unlimited conversations.",
     requiresUpgrade |-> TRUE]

\* the fetch payload: model, max_tokens and the prompt with its "n/2" line
ContinuePayload(body, conversationCount) ==
    [model |-> "claude-sonnet-4-20250514", max_tokens |-> ContinueMaxTokens,
     kind |-> "continuation", userQuestion |-> body.userQuestion,
     countLine |-> conversationCount + 1]

\* mutant: the response echoes the count without incrementing it
ContinueSuccessNoIncrement(text, conversationCount) ==
    [status |-> HttpOk, success |-> TRUE, response |-> text,
     conversationCount |-> conversationCount]

ContinueSuccess(text, conversationCount) ==
    [status |-> HttpOk, success |-> TRUE, response |-> text,
     conversationCount |-> conversationCount + 1]

ContinueFailure ==
    [status |-> HttpServerError, success |-> FALSE,
     error |-> "Failed to continue conversation"]

\* The client of one check-in: it persists the count of a successful
\* response and counts the texts it was given.
CallerPersist(from, res) ==
    IF from = "caller" /\ "conversationCount" \in DOMAIN res
    THEN /\ callerTurn' = res.conversationCount
         /\ callerTexts' = callerTexts + 1
    ELSE UNCHANGED <<callerTurn, callerTexts>>

\* The handler from its entry to the limit rejection or to the await of fetch.
ContinueConversation(body, from) ==
    /\ convPc # "awaitLLM"
    /\ nRequests < MaxRequests
    /\ nRequests' = nRequests + 1
    /\ convBody' = body
    /\ convFrom' = from
    /\ convCount' = ConversationCountOf(body)
    /\ convOutcome' = NoOutcome
    /\ UNCHANGED <<locVars, resVars, insVars, ccVars>>
    /\ IF LimitReached(ConversationCountOf(body))
       THEN /\ convPc' = "done"
            /\ convRes' = LimitResponse
            /\ convResCount' = 1
            /\ convLLMCalls' = 0
            /\ convCall' = NoCall
            /\ CallerPersist(from, LimitResponse)
       ELSE /\ convPc' = "awaitLLM"
            /\ convRes' = NoResponse
            /\ convResCount' = 0
            /\ convLLMCalls' = 1
            /\ convCall' = ContinuePayload(body, ConversationCountOf(body))
            /\ UNCHANGED <<callerTurn, callerTexts>>

\* a request of any client, with any turn count
ClientContinue ==
    \E body \in ContinueBodies : ContinueConversation(body, "other")

\* a request of the check-in's client, with the count it persisted
CallerContinue ==
    ContinueConversation([userQuestion |-> "q", conversationCount |-> callerTurn], "caller")

\* mutant: the failure response carries the incremented count
ContinueResultCountsFailure(outcome, conversationCount) ==
    IF outcome.kind = "ok"
    THEN ContinueSuccess(outcome.text, conversationCount)
    ELSE [status |-> HttpServerError, success |-> FALSE,
          error |-> "Failed to continue conversation",
          conversationCount |-> conversationCount + 1]

\* what the handler answers once the fetch has settled
ContinueResult(outcome, conversationCount) ==
    IF outcome.kind = "ok"
    THEN ContinueSuccess(outcome.text, conversationCount)
    ELSE ContinueFailure

\* The handler from the resumption after fetch to its response.
ContinueLLMSettles ==
    /\ convPc = "awaitLLM"
    /\ \E outcome \in LLMOutcomes :
          /\ convOutcome' = outcome
          /\ convRes' = ContinueResult(outcome, convCount)
          /\ CallerPersist(convFrom, ContinueResult(outcome, convCount))
    /\ convResCount' = convResCount + 1
    /\ convPc' = "done"
    /\ UNCHANGED <<convBody, convFrom, convCount, convLLMCalls, convCall, nRequests>>
    /\ UNCHANGED <<locVars, resVars, insVars, ccVars>>

InitConv ==
    /\ convPc = "idle"
    /\ convBody = [userQuestion |-> "q"]
    /\ convFrom = "other"
    /\ convCount = 0
    /\ convLLMCalls = 0
    /\ convCall = NoCall
    /\ convOutcome = NoOutcome
    /\ convRes = NoResponse
    /\ convResCount = 0
    /\ callerTurn = 0
    /\ callerTexts = 0
    /\ nRequests = 0

(***************************************************************************)
(* JavaScript values and string methods used by the handlers.              *)
(***************************************************************************)
Undefined == "<undefined>"
Null == "<null>"

\* truthiness of a string-or-missing value: undefined, null and "" are falsy
Truthy(v) == v \notin {Undefined, Null, ""}

\* String.prototype.startsWith
StartsWith(s, p) == Len(s) >= Len(p) /\ SubSeq(s, 1, Len(p)) = p

\* String.prototype.includes
Includes(s, k) == \E i \in 1 .. (Len(s) - Len(k) + 1) : SubSeq(s, i, i + Len(k) - 1) = k

\* s.split(',')[0]: the text before the first comma (all of s when it has none)
SplitFirst(s) ==
    IF Includes(s, ",")
    THEN LET i == CHOOSE k \in 1 .. Len(s) :
                    /\ SubSeq(s, k, k) = ","
                    /\ \A j \in 1 .. (k - 1) : SubSeq(s, j, j) # ","
         IN SubSeq(s, 1, i - 1)
    ELSE s

\* String.prototype.trim (blanks only)
RECURSIVE Trim(_)
Trim(s) ==
    IF Len(s) > 0 /\ SubSeq(s, 1, 1) = " " THEN Trim(SubSeq(s, 2, Len(s)))
    ELSE IF Len(s) > 0 /\ SubSeq(s, Len(s), Len(s)) = " " THEN Trim(SubSeq(s, 1, Len(s) - 1))
    ELSE s

(***************************************************************************)
(* POST /api/detect-location                                               *)
(***************************************************************************)
\* first entries of the address a client may present
SampleIPs ==
    {"10.1.2.3", "192.168.1.5", "127.0.0.1", "::1", "172.16.0.9", "172.31.9.9",
     "172.32.0.1", "8.8.8.8", "101.2.3.4", "192.169.0.1"}

\* x-forwarded-for values: an optional IPv6-mapping prefix, the first entry,
\* an optional rest of the forwarding chain
ForwardedValues ==
    {pre \o ip \o rest : pre \in {"", "::ffff:"}, ip \in SampleIPs,
                         rest \in {"", ", 8.8.4.4", " ,10.0.0.7"}}

\* requests: the header x-forwarded-for, the header x-real-ip, whether the
\* request has a connection object, and the connection's remoteAddress
LocRequests ==
    {[xForwardedFor |-> f, xRealIp |-> Undefined, connection |-> TRUE, remoteAddress |-> "::ffff:127.0.0.1"] :
        f \in ForwardedValues}
    \cup {[xForwardedFor |-> Undefined, xRealIp |-> r, connection |-> c, remoteAddress |-> a] :
            r \in {Undefined, "8.8.8.8", "10.9.9.9"}, c \in BOOLEAN,
            a \in {Undefined, "", "::1", "::ffff:9.9.9.9", "172.20.1.1"}}

\* req.headers['x-forwarded-for'] || req.headers['x-real-ip'] ||
\* req.connection.remoteAddress || ...: reading remoteAddress of a missing
\* connection throws a TypeError
ReadIPThrows(req) ==
    /\ ~Truthy(req.xForwardedFor)
    /\ ~Truthy(req.xRealIp)
    /\ ~req.connection

RawIP(req) ==
    IF Truthy(req.xForwardedFor) THEN req.xForwardedFor
    ELSE IF Truthy(req.xRealIp) THEN req.xRealIp
    ELSE IF Truthy(req.remoteAddress) THEN req.remoteAddress
    ELSE Null

\* if (userIP && userIP.includes(',')) userIP = userIP.split(',')[0].trim();
FirstOfChain(ip) ==
    IF Truthy(ip) /\ Includes(ip, ",") THEN Trim(SplitFirst(ip)) ELSE ip

\* if (userIP && userIP.startsWith('::ffff:')) userIP = userIP.substring(7);
StripMappedPrefix(ip) ==
    IF Truthy(ip) /\ StartsWith(ip, "::ffff:") THEN SubSeq(ip, 8, Len(ip)) ELSE ip

CleanIP(req) == StripMappedPrefix(FirstOfChain(RawIP(req)))

\* the guard of the external lookup
ShouldLookup(userIP) ==
    /\ Truthy(userIP)
    /\ userIP # "::1"
    /\ ~StartsWith(userIP, "127.")
    /\ ~StartsWith(userIP, "192.168.")
    /\ ~StartsWith(userIP, "10.")

\* ip-api.com through fetch() and json(): fetch rejects; the body is not
\* JSON; the body is the JSON value null; the body is a JSON object
PrimaryBodies ==
    {[status |-> "success", city |-> "Paris", regionName |-> "Ile-de-France",
      country |-> "France", lat |-> "48.85", lon |-> "2.35", isp |-> "isp-1"],
     [status |-> "success", city |-> "", regionName |-> "", country |-> "France",
      lat |-> "46.0", lon |-> "2.0", isp |-> "isp-1"],
     [status |-> "fail", city |-> Undefined, regionName |-> Undefined,
      country |-> Undefined, lat |-> Undefined, lon |-> Undefined, isp |-> Undefined],
     [status |-> "fail", city |-> "Paris", regionName |-> Undefined,
      country |-> Undefined, lat |-> Undefined, lon |-> Undefined, isp |-> Undefined],
     [status |-> Undefined, city |-> "Paris", regionName |-> Undefined,
      country |-> "France", lat |-> Undefined, lon |-> Undefined, isp |-> Undefined],
     [status |-> Undefined, city |-> Undefined, regionName |-> Undefined,
      country |-> Undefined, lat |-> Undefined, lon |-> Undefined, isp |-> Undefined]}

PrimaryOutcomes ==
    {[kind |-> "networkError"], [kind |-> "notJson"], [kind |-> "null"]}
    \cup {[kind |-> "body", body |-> b] : b \in PrimaryBodies}

\* ipinfo.io through fetch() and json()
BackupBodies ==
    {[city |-> c, region |-> r, country |-> k] :
        c \in {Undefined, "", "Lyon"}, r \in {Undefined, "Rhone"}, k \in {Undefined, "FR"}}

BackupOutcomes ==
    {[kind |-> "networkError"], [kind |-> "notJson"], [kind |-> "null"]}
    \cup {[kind |-> "body", body |-> b] : b \in BackupBodies}

\* mutant: the backup provider is tried whatever the primary answered
PrimaryThrowsAlways(outcome) == TRUE

\* the primary try block throws: fetch rejected or json() rejected
PrimaryThrows(outcome) == outcome.kind \in {"networkError", "notJson"}

\* mutant: the backup result is taken when it has a city or a region
BackupUsableEither(body) == Truthy(body.city) \/ Truthy(body.region)

\* if (backupData.city && backupData.region)
BackupUsable(body) == Truthy(body.city) /\ Truthy(body.region)

\* geoData built from the backup body
BackupGeoData(body) ==
    [status |-> "success", city |-> body.city, regionName |-> body.region,
     country |-> body.country, lat |-> Undefined, lon |-> Undefined, isp |-> Undefined]

\* if (geoData && (geoData.status === 'success' || geoData.city))
GeoDataAccepted(geoData) == geoData.status = "success" \/ Truthy(geoData.city)

\* the detected response; geoData.region is undefined for both providers' geoData
DetectedResponse(geoData, userIP) ==
    [status |-> HttpOk, success |-> TRUE,
     state |-> IF Truthy(geoData.regionName) THEN geoData.regionName ELSE Undefined,
     city |-> geoData.city, country |-> geoData.country,
     latitude |-> geoData.lat, longitude |-> geoData.lon,
     detected |-> TRUE, ip |-> userIP, isp |-> geoData.isp]

\* the "enhanced fallback" response
FallbackResponse(userIP) ==
    [status |-> HttpOk, success |-> TRUE, state |-> "Your State", city |-> "Your City",
     country |-> "United States", detected |-> FALSE, ip |-> userIP,
     note |-> "Location detection unavailable for this IP"]

\* the response of the outer catch block; error is error.message
CaughtResponse(message) ==
    [status |-> HttpOk, success |-> FALSE, state |-> "Your State", city |-> "Your City",
     error |-> message]

\* mutant: no return after the detected response, the fallback is sent too
LocRespondNoReturn(res) ==
    /\ locRes' = res
    /\ locResCount' = locResCount + (IF res.detected THEN 2 ELSE 1)
    /\ locPc' = "done"

\* res.json(...) of the lookup path, the last statement the handler executes
LocRespond(res) ==
    /\ locRes' = res
    /\ locResCount' = locResCount + 1
    /\ locPc' = "done"

\* The handler from its entry to its first await (or to its response).
DetectLocation ==
    /\ locPc \in {"idle", "done"}
    /\ \E req \in LocRequests :
          /\ locReq' = req
          /\ locPrimary' = NoOutcome
          /\ locSecondary' = NoOutcome
          /\ IF ReadIPThrows(req)
             THEN /\ locIP' = Undefined
                  /\ locCalls' = <<>>
                  /\ locRes' = CaughtResponse("Cannot read properties of undefined (reading 'remoteAddress')")
                  /\ locResCount' = 1
                  /\ locPc' = "done"
             ELSE /\ locIP' = CleanIP(req)
                  /\ IF ShouldLookup(CleanIP(req))
                     THEN /\ locCalls' = <<"primary">>
                          /\ locRes' = NoResponse
                          /\ locResCount' = 0
                          /\ locPc' = "awaitPrimary"
                     ELSE /\ locCalls' = <<>>
                          /\ locRes' = FallbackResponse(CleanIP(req))
                          /\ locResCount' = 1
                          /\ locPc' = "done"
    /\ UNCHANGED <<convVars, resVars, insVars, ccVars>>

\* what the handler answers for the geoData it ended with (null included)
GeoResult(outcome, userIP) ==
    IF outcome.kind = "body" /\ GeoDataAccepted(outcome.body)
    THEN DetectedResponse(outcome.body, userIP)
    ELSE FallbackResponse(userIP)

\* The primary call settles: a throw enters the catch block, which calls the
\* backup provider; anything else is geoData.
PrimarySettles ==
    /\ locPc = "awaitPrimary"
    /\ \E outcome \in PrimaryOutcomes :
          /\ locPrimary' = outcome
          /\ IF PrimaryThrows(outcome)
             THEN /\ locCalls' = Append(locCalls, "secondary")
                  /\ locPc' = "awaitSecondary"
                  /\ UNCHANGED <<locRes, locResCount>>
             ELSE /\ LocRespond(GeoResult(outcome, locIP))
                  /\ UNCHANGED locCalls
    /\ UNCHANGED <<locReq, locIP, locSecondary>>
    /\ UNCHANGED <<convVars, resVars, insVars, ccVars>>

\* what the handler answers after the backup call: a throw (fetch, json(), or
\* reading .city of null) is caught by the geoError handler and geoData stays
\* null; a usable body becomes geoData
BackupResult(outcome, userIP) ==
    IF outcome.kind = "body" /\ BackupUsable(outcome.body)
    THEN GeoResult([kind |-> "body", body |-> BackupGeoData(outcome.body)], userIP)
    ELSE FallbackResponse(userIP)

BackupSettles ==
    /\ locPc = "awaitSecondary"
    /\ \E outcome \in BackupOutcomes :
          /\ locSecondary' = outcome
          /\ LocRespond(BackupResult(outcome, locIP))
    /\ UNCHANGED <<locReq, locIP, locCalls, locPrimary>>
    /\ UNCHANGED <<convVars, resVars, insVars, ccVars>>

InitLoc ==
    /\ locPc = "idle"
    /\ locReq = [xForwardedFor |-> Undefined, xRealIp |-> Undefined,
                 connection |-> TRUE, remoteAddress |-> Undefined]
    /\ locIP = Undefined
    /\ locCalls = <<>>
    /\ locPrimary = NoOutcome
    /\ locSecondary = NoOutcome
    /\ locRes = NoResponse
    /\ locResCount = 0

NextLoc ==
    \/ DetectLocation
    \/ PrimarySettles
    \/ BackupSettles

(***************************************************************************)
(* POST /api/search-resources                                              *)
(***************************************************************************)
\* String.prototype.toLowerCase
LowerChar(c) ==
    CASE c = "A" -> "a" [] c = "B" -> "b" [] c = "C" -> "c" [] c = "D" -> "d"
      [] c = "E" -> "e" [] c = "F" -> "f" [] c = "G" -> "g" [] c = "H" -> "h"
      [] c = "I" -> "i" [] c = "J" -> "j" [] c = "K" -> "k" [] c = "L" -> "l"
      [] c = "M" -> "m" [] c = "N" -> "n" [] c = "O" -> "o" [] c = "P" -> "p"
      [] c = "Q" -> "q" [] c = "R" -> "r" [] c = "S" -> "s" [] c = "T" -> "t"
      [] c = "U" -> "u" [] c = "V" -> "v" [] c = "W" -> "w" [] c = "X" -> "x"
      [] c = "Y" -> "y" [] c = "Z" -> "z" [] OTHER -> c

RECURSIVE ToLowerCase(_)
ToLowerCase(s) ==
    IF Len(s) = 0 THEN s
    ELSE LowerChar(SubSeq(s, 1, 1)) \o ToLowerCase(SubSeq(s, 2, Len(s)))

\* Array.prototype.join
RECURSIVE Join(_, _)
Join(list, sep) ==
    IF Len(list) = 0 THEN ""
    ELSE IF Len(list) = 1 THEN list[1]
    ELSE list[1] \o sep \o Join(Tail(list), sep)

\* mutant: the default of the curated snapshot, location || 'Oregon'
LocationStringOregonDefault(body) ==
    IF Truthy(body.city) /\ Truthy(body.state) THEN body.city \o ", " \o body.state
    ELSE IF Truthy(body.location) THEN body.location
    ELSE "Oregon"

\* city && state ? `${city}, ${state}` : location || 'your area'
LocationString(body) ==
    IF Truthy(body.city) /\ Truthy(body.state) THEN body.city \o ", " \o body.state
    ELSE IF Truthy(body.location) THEN body.location
    ELSE "your area"

\* the keyword groups, in the order of the if statements, and their phrases
KeywordTable ==
    << [keywords |-> {"job", "unemploy", "work"},
        phrase |-> "job search unemployment assistance"],
       [keywords |-> {"money", "financial", "bills", "rent"},
        phrase |-> "emergency financial assistance rent help"],
       [keywords |-> {"storm", "weather", "flood", "emergency"},
        phrase |-> "weather emergency assistance disaster relief"],
       [keywords |-> {"housing", "homeless", "evict"},
        phrase |-> "housing assistance emergency shelter"],
       [keywords |-> {"health", "medical", "doctor", "weight", "fat"},
        phrase |-> "weight loss programs medical weight management"],
       [keywords |-> {"stress", "anxiety", "depress"},
        phrase |-> "mental health counseling support groups"],
       [keywords |-> {"rabbi", "church", "spiritual", "faith"},
        phrase |-> "spiritual counseling faith community support"] >>

\* mutant: an else-if chain, only the first matching group contributes
RECURSIVE KeywordTermsFirstOnly(_, _, _)
KeywordTermsFirstOnly(k, context, locationString) ==
    IF k > Len(KeywordTable) THEN <<>>
    ELSE IF \E w \in KeywordTable[k].keywords : Includes(context, w)
    THEN <<KeywordTable[k].phrase \o " " \o locationString>>
    ELSE KeywordTermsFirstOnly(k + 1, context, locationString)

\* the pushes of the keyword groups k .. 7 onto contextualSearchTerms
RECURSIVE KeywordTermsFrom(_, _, _)
KeywordTermsFrom(k, context, locationString) ==
    IF k > Len(KeywordTable) THEN <<>>
    ELSE (IF \E w \in KeywordTable[k].keywords : Includes(context, w)
          THEN <<KeywordTable[k].phrase \o " " \o locationString>>
          ELSE <<>>)
         \o KeywordTermsFrom(k + 1, context, locationString)

\* if (userContext && userContext.trim()) { ... }
ContextTerms(userContext, locationString) ==
    IF Truthy(userContext) /\ Truthy(Trim(userContext))
    THEN KeywordTermsFrom(1, ToLowerCase(userContext), locationString)
    ELSE <<>>

\* mutant: the switch has no case for 'spiritual'
AreaPhraseMissingCase(area) ==
    CASE area = "financial" -> "financial assistance emergency aid"
      [] area = "occupational" -> "job search career services"
      [] area = "emotional" -> "mental health support counseling"
      [] area = "physical" -> "healthcare community health centers"
      [] area = "social" -> "support groups community resources"
      [] area = "environmental" -> "housing assistance emergency shelter"
      [] area = "intellectual" -> "adult education learning resources"
      [] OTHER -> "wellness resources"

\* the switch of the dimension-based fallback
AreaPhrase(area) ==
    CASE area = "financial" -> "financial assistance emergency aid"
      [] area = "occupational" -> "job search career services"
      [] area = "emotional" -> "mental health support counseling"
      [] area = "physical" -> "healthcare community health centers"
      [] area = "social" -> "support groups community resources"
      [] area = "environmental" -> "housing assistance emergency shelter"
      [] area = "intellectual" -> "adult education learning resources"
      [] area = "spiritual" -> "spiritual wellness community support"
      [] OTHER -> "wellness resources"

\* mutant: the phrases are returned without the location
AreaTermsNoLocation(concerningAreas, locationString) ==
    [i \in 1 .. Len(concerningAreas) |-> AreaPhrase(concerningAreas[i])]

\* concerningAreas.map(area => ...)
AreaTerms(concerningAreas, locationString) ==
    [i \in 1 .. Len(concerningAreas) |->
        AreaPhrase(concerningAreas[i]) \o " " \o locationString]

\* contextualSearchTerms once both steps have run
SearchTerms(body) ==
    IF Len(ContextTerms(body.userContext, LocationString(body))) = 0
    THEN AreaTerms(body.concerningAreas, LocationString(body))
    ELSE ContextTerms(body.userContext, LocationString(body))

\* concerningAreas.map / concerningAreas.join throw when the request has no
\* concerningAreas array
SearchThrowsBeforeCall(body) == "concerningAreas" \notin DOMAIN body

\* the prompt (the lead glyph of the sample title left out)
ResourcePrompt(body) ==
    "You are a helpful resource finder for VYBIN wellness app users. I need you to search for and provide specific, actionable resources for someone dealing with these specific concerns.\n\n"
    \o "Location: " \o LocationString(body) \o "\n\n"
    \o "What they told me: \"" \o
       (IF Truthy(body.userContext) THEN body.userContext ELSE "General wellness concerns")
    \o "\"\n\n"
    \o "Areas they rated low (1-2/5): " \o Join(body.concerningAreas, ", ") \o "\n\n"
    \o "Based on what they specifically shared with you, find 3-4 relevant resources that would actually help someone in "
    \o LocationString(body) \o " with their specific situation.\n\n"
    \o "Focus on resources that connect to what they actually told you, not just generic categories.\n\n"
    \o "Format your response as a JSON array like this:\n[\n  {\n"
    \o "    \"title\": \"Specific Organization Name\", \n"
    \o "    \"description\": \"Brief description connecting to their specific situation\",\n"
    \o "    \"url\": \"actual website URL\"\n  }\n]\n\n"
    \o "Prioritize:\n"
    \o "- Resources that address their specific context/situation\n"
    \o "- Local government services and 211 services\n"
    \o "- Crisis support if they mentioned urgent situations\n"
    \o "- Practical, actionable resources they can use immediately\n"
    \o "- National resources with local chapters\n\n"
    \o "Keep descriptions brief and specific to their situation."

\* --- the LLM's answer text, as JSON tokens ---
\* A text is a sequence of tokens: the brackets and the comma, complete JSON
\* values (item<k>: an object with title, description and url; "partial": an
\* object with a title only; "7": a number), and "prose" (any other words).
ItemToken(k) ==
    CASE k = 1 -> "item1" [] k = 2 -> "item2" [] k = 3 -> "item3" [] k = 4 -> "item4"
      [] k = 5 -> "item5" [] k = 6 -> "item6" [] k = 7 -> "item7" [] OTHER -> "item8"

ItemTokens == {ItemToken(k) : k \in 1 .. 8}
AtomTokens == ItemTokens \cup {"partial", "7"}

AtomValue(tok) ==
    IF tok = "7" THEN [number |-> "7"]
    ELSE IF tok = "partial" THEN [title |-> "title-partial"]
    ELSE [title |-> "title-" \o tok, description |-> "description-" \o tok,
          url |-> "https://" \o tok]

ParseFail == [ok |-> FALSE]

\* JSON.parse on tokens: value ::= atom | "[" "]" | "[" value ("," value)* "]"
RECURSIVE ParseValue(_, _), ParseElements(_, _, _)
ParseValue(toks, i) ==
    IF i > Len(toks) THEN ParseFail
    ELSE IF toks[i] \in AtomTokens
    THEN [ok |-> TRUE, value |-> AtomValue(toks[i]), next |-> i + 1]
    ELSE IF toks[i] = "["
    THEN IF i + 1 <= Len(toks) /\ toks[i + 1] = "]"
         THEN [ok |-> TRUE, value |-> [array |-> <<>>], next |-> i + 2]
         ELSE ParseElements(toks, i + 1, <<>>)
    ELSE ParseFail

ParseElements(toks, i, acc) ==
    LET v == ParseValue(toks, i) IN
    IF ~v.ok THEN ParseFail
    ELSE IF v.next > Len(toks) THEN ParseFail
    ELSE IF toks[v.next] = "]"
    THEN [ok |-> TRUE, value |-> [array |-> Append(acc, v.value)], next |-> v.next + 1]
    ELSE IF toks[v.next] = ","
    THEN ParseElements(toks, v.next + 1, Append(acc, v.value))
    ELSE ParseFail

JsonParse(toks) ==
    LET r == ParseValue(toks, 1) IN
    IF r.ok /\ r.next = Len(toks) + 1 THEN [ok |-> TRUE, value |-> r.value] ELSE ParseFail

\* resourceText.match(/\[[\s\S]*\]/): from the first "[" to the last "]"
HasJsonMatch(text) ==
    \E i, j \in 1 .. Len(text) : i < j /\ text[i] = "[" /\ text[j] = "]"

JsonMatch(text) ==
    LET first == CHOOSE i \in 1 .. Len(text) :
                    text[i] = "[" /\ \A k \in 1 .. (i - 1) : text[k] # "["
        last == CHOOSE j \in 1 .. Len(text) :
                    text[j] = "]" /\ \A k \in (j + 1) .. Len(text) : text[k] # "]"
    IN SubSeq(text, first, last)

\* the fallback of the inner catch (parse error)
ParseFallbackResources(locationString) ==
    << [title |-> "211 Information & Referral",
        description |-> "Call 2-1-1 for local help in " \o locationString
                        \o " with your specific situation",
        url |-> "https://www.211.org"],
       [title |-> "988 Crisis Support",
        description |-> "Call or text 988 for mental health crisis support",
        url |-> "https://988lifeline.org"] >>

\* the fallback of the outer catch
ErrorFallbackResources ==
    << [title |-> "211 Help Line",
        description |-> "Call 2-1-1 for local assistance anywhere in the US",
        url |-> "https://www.211.org"],
       [title |-> "988 Crisis Support",
        description |-> "Call or text 988 for mental health crisis help",
        url |-> "https://988lifeline.org"] >>

\* the inner try/catch: match, parse, or fall back
ParsedResources(text, locationString) ==
    IF HasJsonMatch(text) /\ JsonParse(JsonMatch(text)).ok
    THEN JsonParse(JsonMatch(text)).value.array
    ELSE ParseFallbackResources(locationString)

\* mutant: the whole list is returned
SliceNone(list) == list

\* mutant: slice(-4), the last four entries
SliceLastFour(list) ==
    IF Len(list) > MaxResources THEN SubSeq(list, Len(list) - MaxResources + 1, Len(list))
    ELSE list

\* resources.slice(0, 4)
SliceResources(list) ==
    IF Len(list) > MaxResources THEN SubSeq(list, 1, MaxResources) ELSE list

SearchSuccess(resources) ==
    [status |-> HttpOk, success |-> TRUE, resources |-> SliceResources(resources)]

\* mutant: the outer catch answers an error, as the other routes do
SearchCaughtAsError ==
    [status |-> HttpServerError, success |-> FALSE, error |-> "Failed to search resources"]

SearchCaught ==
    [status |-> HttpOk, success |-> TRUE, resources |-> ErrorFallbackResources]

\* texts the LLM may answer with
ArrayOf(n) ==
    <<"[">> \o [i \in 1 .. (2 * n - 1) |-> IF i % 2 = 1 THEN ItemToken((i + 1) \div 2) ELSE ","]
    \o <<"]">>

FreeTokens == {"[", "]", ",", "item1", "prose"}

FreeTexts == UNION {[1 .. n -> FreeTokens] : n \in 0 .. MaxFreeLen}

ResourceTexts ==
    {pre \o ArrayOf(n) \o post : n \in 1 .. MaxItems,
                                 pre \in {<<>>, <<"prose">>}, post \in {<<>>, <<"prose">>}}
    \cup FreeTexts
    \cup { <<"prose", "[", "7", "]", "prose">> \o ArrayOf(2),
           <<"[", "item1", ",", "]">>,
           <<"[", "item1", "item2", "]">>,
           <<"[", "7", ",", "partial", ",", "item1", "]">>,
           <<"[", "[", "item1", "]", ",", "item2", "]">>,
           <<"[", "item1", ",", "item2">>,
           <<"item1", ",", "item2", "]">>,
           <<"]", "item1", "[">> }

\* fetch resolves ok with a text; resolves non-2xx; rejects; resolves ok with
\* a body that is not JSON; resolves ok with JSON that has no content[0].text
ResourceOutcomes ==
    {[kind |-> "ok", text |-> t] : t \in ResourceTexts}
    \cup {[kind |-> "httpError"], [kind |-> "networkError"], [kind |-> "notJson"],
          [kind |-> "noContent"]}

AreaLists ==
    {<<>>, <<"financial">>, <<"financial", "social">>, <<"social", "financial">>,
     <<"emotional", "pets", "physical">>,
     <<"spiritual", "intellectual", "environmental", "occupational">>}

\* userContext: absent, empty, blank, without a keyword, with keywords
SearchContexts ==
    {Undefined, "", "  ", "feeling tired", "rent", "lost my job this week",
     "Lost my JOB, rent is due", "my father is homeless",
     "Stress at work; the church flooded and the doctor wants money"}

\* request bodies with a concerningAreas array, and malformed ones without
SearchBodies ==
    {[concerningAreas |-> a, location |-> l, city |-> c, state |-> c2, userContext |-> u] :
        a \in AreaLists,
        l \in {Undefined, "Oregon"},
        c \in {Undefined, "Salem"},
        c2 \in {Undefined, "OR"},
        u \in SearchContexts}
    \cup {[location |-> l, city |-> Undefined, state |-> Undefined, userContext |-> u] :
            l \in {Undefined, "Oregon"}, u \in SearchContexts}

\* The handler from its entry to the await of fetch (or to the outer catch).
\* Requests share nothing, so one request is followed from an idle server.
SearchResources ==
    /\ resPc = "idle"
    /\ curPc = "idle"
    /\ UNCHANGED <<curPc, curBody, curRes>>
    /\ \E body \in SearchBodies :
          /\ resBody' = body
          /\ resLocation' = LocationString(body)
          /\ resOutcome' = NoOutcome
          /\ IF SearchThrowsBeforeCall(body)
             THEN /\ resTerms' = ContextTerms(body.userContext, LocationString(body))
                  /\ resCalls' = 0
                  /\ resPrompt' = ""
                  /\ resRes' = SearchCaught
                  /\ resResCount' = 1
                  /\ resPc' = "done"
             ELSE /\ resTerms' = SearchTerms(body)
                  /\ resCalls' = 1
                  /\ resPrompt' = ResourcePrompt(body)
                  /\ resRes' = NoResponse
                  /\ resResCount' = 0
                  /\ resPc' = "awaitLLM"
    /\ UNCHANGED <<convVars, locVars, insVars, ccVars>>

\* what the handler answers once the fetch has settled: a text goes through
\* the inner try; a missing content[0].text throws inside the inner try; any
\* other failure reaches the outer catch
SearchResult(outcome, locationString) ==
    IF outcome.kind = "ok"
    THEN SearchSuccess(ParsedResources(outcome.text, locationString))
    ELSE IF outcome.kind = "noContent"
    THEN SearchSuccess(ParseFallbackResources(locationString))
    ELSE SearchCaught

SearchLLMSettles ==
    /\ resPc = "awaitLLM"
    /\ \E outcome \in ResourceOutcomes :
          /\ resOutcome' = outcome
          /\ resRes' = SearchResult(outcome, resLocation)
    /\ resResCount' = resResCount + 1
    /\ resPc' = "done"
    /\ UNCHANGED <<resBody, resLocation, resTerms, resCalls, resPrompt>>
    /\ UNCHANGED <<curPc, curBody, curRes>>
    /\ UNCHANGED <<convVars, locVars, insVars, ccVars>>

(***************************************************************************)
(* POST /api/search-resources of the curated snapshot (no LLM call)        *)
(***************************************************************************)
\* resourceDatabase: the titles and urls of each area's entries
CuratedEntry(title, url) == [title |-> title, description |-> "curated: " \o title, url |-> url]

ResourceDatabase(area) ==
    CASE area = "financial" ->
           << CuratedEntry("Oregon Employment Department", "https://www.oregon.gov/employ/"),
              CuratedEntry("211info Financial Assistance", "https://www.211info.org"),
              CuratedEntry("SNAP Benefits Oregon", "https://www.oregon.gov/dhs/assistance/food-benefits/") >>
      [] area = "occupational" ->
           << CuratedEntry("WorkSource Oregon", "https://www.worksourceoregon.org"),
              CuratedEntry("Oregon Career Information System", "https://www.oregoncis.uoregon.edu"),
              CuratedEntry("Portland Community College", "https://www.pcc.edu") >>
      [] area = "emotional" ->
           << CuratedEntry("Oregon Crisis & Suicide Lifeline", "https://www.oregon.gov/oha/ph/preventionwellness/suicideprevention/"),
              CuratedEntry("NAMI Oregon", "https://namior.org"),
              CuratedEntry("Crisis Text Line", "https://www.crisistextline.org") >>
      [] area = "physical" ->
           << CuratedEntry("Oregon Health Authority", "https://www.oregon.gov/oha/"),
              CuratedEntry("Federally Qualified Health Centers", "https://findahealthcenter.hrsa.gov/") >>
      [] area = "social" ->
           << CuratedEntry("AA Meetings Oregon", "https://www.aa.org"),
              CuratedEntry("NA Meetings Oregon", "https://www.na.org"),
              CuratedEntry("SMART Recovery", "https://www.smartrecovery.org") >>
      [] area = "environmental" ->
           << CuratedEntry("Oregon Housing Authority", "https://www.oregon.gov/ohcs/"),
              CuratedEntry("211info Housing Help", "https://www.211info.org") >>
      [] area = "intellectual" ->
           << CuratedEntry("Multnomah County Library", "https://multcolib.org"),
              CuratedEntry("Oregon Adult Education", "https://www.oregon.gov/ode/students-and-family/AdultEd/") >>
      [] area = "spiritual" ->
           << CuratedEntry("Recovery-Friendly Faith Communities", "https://www.oregon.gov/oha/hsd/amh/pages/recovery-support.aspx"),
              CuratedEntry("Mindfulness-Based Recovery", "https://mindfulnessbasedaddictionrecovery.com") >>
      [] OTHER -> <<>>

GeneralResources ==
    << CuratedEntry("211info Oregon", "https://www.211info.org"),
       CuratedEntry("Oregon Recovers", "https://www.oregonrecovers.org") >>

\* concerningAreas.forEach(area => resources.push(...resourceDatabase[area]))
RECURSIVE CollectResources(_)
CollectResources(concerningAreas) ==
    IF Len(concerningAreas) = 0 THEN <<>>
    ELSE ResourceDatabase(Head(concerningAreas)) \o CollectResources(Tail(concerningAreas))

\* mutant: the curated list is returned whole
CuratedSliceNone(list) == list

\* resources.slice(0, 4)
CuratedSlice(list) ==
    IF Len(list) > CuratedMaxResources THEN SubSeq(list, 1, CuratedMaxResources) ELSE list

generateResourcesForAreas(concerningAreas) ==
    CuratedSlice(IF Len(CollectResources(concerningAreas)) = 0
                 THEN GeneralResources
                 ELSE CollectResources(concerningAreas))

\* The whole handler: the list, or a 500 when forEach throws on a request
\* without concerningAreas.
CuratedSearch ==
    /\ resPc = "idle"
    /\ curPc = "idle"
    /\ \E body \in SearchBodies :
          /\ curBody' = body
          /\ curRes' = IF "concerningAreas" \in DOMAIN body
                       THEN [status |-> HttpOk, success |-> TRUE,
                             resources |-> generateResourcesForAreas(body.concerningAreas)]
                       ELSE [status |-> HttpServerError, success |-> FALSE,
                             error |-> "Failed to search resources"]
    /\ curPc' = "done"
    /\ UNCHANGED <<resPc, resBody, resLocation, resTerms, resCalls, resPrompt, resOutcome,
                   resRes, resResCount>>
    /\ UNCHANGED <<convVars, locVars, insVars, ccVars>>

InitRes ==
    /\ curPc = "idle"
    /\ curBody = [location |-> Undefined, city |-> Undefined, state |-> Undefined,
                  userContext |-> Undefined]
    /\ curRes = NoResponse
    /\ resPc = "idle"
    /\ resBody = [concerningAreas |-> <<>>, location |-> Undefined, city |-> Undefined,
                  state |-> Undefined, userContext |-> Undefined]
    /\ resLocation = "your area"
    /\ resTerms = <<>>
    /\ resCalls = 0
    /\ resPrompt = ""
    /\ resOutcome = NoOutcome
    /\ resRes = NoResponse
    /\ resResCount = 0

NextRes ==
    \/ SearchResources
    \/ SearchLLMSettles
    \/ CuratedSearch

(***************************************************************************)
(* createPreliminaryPrompt and createWellnessPrompt                        *)
(***************************************************************************)
\* String(n) of a template literal, for a natural number
RECURSIVE NumStr(_)
NumStr(n) ==
    IF n < 10 THEN SubSeq("0123456789", n + 1, n + 1)
    ELSE NumStr(n \div 10) \o SubSeq("0123456789", (n % 10) + 1, (n % 10) + 1)

\* dimensionNames of createPreliminaryPrompt
PreliminaryNames ==
    [physical |-> "physical health",
     financial |-> "financial situation",
     emotional |-> "emotional well-being",
     environmental |-> "living environment",
     social |-> "relationships",
     occupational |-> "work/career",
     intellectual |-> "mental stimulation",
     spiritual |-> "spiritual well-being"]

\* dimensionNames of createWellnessPrompt
WellnessNames ==
    [physical |-> "Physical",
     financial |-> "Financial",
     emotional |-> "Emotional",
     environmental |-> "Environmental",
     social |-> "Social",
     occupational |-> "Occupational",
     intellectual |-> "Intellectual",
     spiritual |-> "Spiritual"]

\* `${dimensionNames[dim]}`: a key outside the table prints as undefined
DimensionName(names, dim) ==
    IF dim \in DOMAIN names THEN names[dim] ELSE "undefined"

\* ratedDimensions.filter(([dim, rating]) => rating <= 2)
Concerns(ratedDimensions) ==
    SelectSeq(ratedDimensions, LAMBDA e : e.rating <= ConcernMax)

\* ratedDimensions.filter(([dim, rating]) => rating >= 4)
Strengths(ratedDimensions) ==
    SelectSeq(ratedDimensions, LAMBDA e : e.rating >= StrengthMin)

\* ratedDimensions.map(([dim, rating]) => `${dimensionNames[dim]}: ${rating}/5`)
RatingLines(names, ratedDimensions) ==
    [i \in 1 .. Len(ratedDimensions) |->
        DimensionName(names, ratedDimensions[i].dim) \o ": "
        \o NumStr(ratedDimensions[i].rating) \o "/5"]

\* concerns.map(([dim, rating]) => dimensionNames[dim])
ConcernNames(names, ratedDimensions) ==
    [i \in 1 .. Len(Concerns(ratedDimensions)) |->
        DimensionName(names, Concerns(ratedDimensions)[i].dim)]

\* userHistory.checkins of a history object (undefined when it has none)
HasCheckins(userHistory) == "checkins" \in DOMAIN userHistory

\* const recentCheckins = userHistory.checkins || [];
PreliminaryRecent(userHistory) ==
    IF HasCheckins(userHistory) THEN userHistory.checkins ELSE <<>>

\* Array.prototype.slice(-7)
SliceLast(list, n) ==
    IF Len(list) > n THEN SubSeq(list, Len(list) - n + 1, Len(list)) ELSE list

\* const recentCheckins = userHistory.checkins?.slice(-7) || [];
WellnessRecent(userHistory) ==
    IF HasCheckins(userHistory) THEN SliceLast(userHistory.checkins, RecentWindow) ELSE <<>>

\* const isFirstTimeUser = recentCheckins.length === 0;
PreliminaryFirstTime(userHistory) == Len(PreliminaryRecent(userHistory)) = 0

\* mutant: a single earlier check-in still counts as a first visit
WellnessFirstTimeOffByOne(userHistory) == Len(WellnessRecent(userHistory)) <= 1

\* const isFirstTimeUser = !recentCheckins || recentCheckins.length === 0;
WellnessFirstTime(userHistory) == Len(WellnessRecent(userHistory)) = 0

\* recentCheckins.filter(c => c.dateOnly === checkin.dateOnly)
TodayCheckins(checkin, userHistory) ==
    SelectSeq(WellnessRecent(userHistory), LAMBDA c : c.dateOnly = checkin.dateOnly)

\* the template literal of createPreliminaryPrompt
createPreliminaryPrompt(ratings, userHistory) ==
    "You are a supportive VYBIN wellness companion. A user just completed their daily check-in, rating "
    \o NumStr(Len(ratings)) \o " out of 8 wellness dimensions.\n\nTHEIR RATINGS:\n"
    \o Join(RatingLines(PreliminaryNames, ratings), "\n")
    \o "\n\nUSER CONTEXT:\n"
    \o (IF PreliminaryFirstTime(userHistory)
        THEN "This is their FIRST time using VYBIN - you have NO previous knowledge about them."
        ELSE "They have " \o NumStr(Len(PreliminaryRecent(userHistory)))
             \o " previous check-ins. You may acknowledge patterns but focus on today's ratings.")
    \o "\n\nCRITICAL INSTRUCTIONS:\n"
    \o "- Acknowledge what you notice from their ratings in a warm, personalized way\n"
    \o "- Be specific about both challenges AND strengths you see\n"
    \o "- "
    \o (IF PreliminaryFirstTime(userHistory)
        THEN "CRITICAL: Do NOT make ANY assumptions about why they rated things low - you know NOTHING about their background, work, living situation, relationships, or circumstances. Only acknowledge the ratings themselves."
        ELSE "You may reference previous patterns, but focus on today")
    \o "\n- Simply acknowledge the ratings without assuming causes, conditions, or situations\n"
    \o "- Do NOT infer work problems, relationship issues, or life circumstances from ratings alone\n"
    \o "- Keep it brief (2-3 sentences max)  \n"
    \o "- Sound like a caring friend who's paying attention to what they told you\n"
    \o "- Do NOT ask questions yet - just acknowledge what you see\n"
    \o "- End with expressing interest in learning more about their situation\n\n"
    \o "TONE: Warm, attentive, specific to their actual ratings, but don't assume causes\n\n"
    \o "Response:"

\* the USER HISTORY CONTEXT line of createWellnessPrompt
HistoryLine(checkin, userHistory) ==
    IF WellnessFirstTime(userHistory) THEN "This is their first time using VYBIN."
    ELSE IF Len(TodayCheckins(checkin, userHistory)) <= 1
    THEN "This is their first check-in today. They have "
         \o NumStr(Len(WellnessRecent(userHistory))) \o " total previous check-ins."
    ELSE "This is check-in #" \o NumStr(Len(TodayCheckins(checkin, userHistory)))
         \o " today. They have " \o NumStr(Len(WellnessRecent(userHistory)))
         \o " total check-ins."

\* the template literal of createWellnessPrompt
createWellnessPrompt(checkin, userHistory, preliminaryInsights) ==
    "You are a VYBIN wellness companion continuing a conversation. You already gave preliminary insights, now provide deeper support.\n\n"
    \o "CONTEXT: You already acknowledged their ratings and said: \""
    \o (IF preliminaryInsights = Undefined THEN "" ELSE preliminaryInsights)
    \o "\"\n\nTODAY'S SPECIFIC SITUATION:\nWhat they told you: \""
    \o (IF Truthy(checkin.context) THEN checkin.context ELSE "No additional details provided")
    \o "\"\n\nRatings given: "
    \o Join(RatingLines(WellnessNames, checkin.ratings), ", ")
    \o "\n"
    \o (IF Len(Concerns(checkin.ratings)) > 0
        THEN "Areas needing support: " \o Join(ConcernNames(WellnessNames, checkin.ratings), ", ")
        ELSE "")
    \o "\n\nUSER HISTORY CONTEXT:\n"
    \o HistoryLine(checkin, userHistory)
    \o "\n\nCRITICAL RESPONSE REQUIREMENTS:\n"
    \o "- Do NOT say \"hello\" or introduce yourself again\n"
    \o "- Do NOT repeat observations you already made in preliminary insights  \n"
    \o "- Respond specifically to what they shared about their situation TODAY\n"
    \o "- "
    \o (IF WellnessFirstTime(userHistory)
        THEN "CRITICAL: Do NOT make ANY assumptions about their work, relationships, living situation, or circumstances. You know NOTHING about their background except what they explicitly told you today."
        ELSE "You may reference patterns from their previous check-ins, but focus on today")
    \o "\n- ONLY reference circumstances they explicitly shared - do not infer or assume anything\n"
    \o "- If they didn't mention work problems, don't assume work problems exist\n"
    \o "- If they didn't mention relationship issues, don't assume relationship issues exist  \n"
    \o "- Base your response ONLY on what they actually told you\n"
    \o "- Provide practical, relevant guidance for their actual current situation\n"
    \o "- Be conversational and supportive, not clinical or generic\n\n"
    \o "LENGTH: 2 paragraphs maximum\n"
    \o "TONE: Supportive friend who's been listening to today's conversation\n\n"
    \o "Response:"

(***************************************************************************)
(* POST /api/preliminary-insights and POST /api/wellness-response          *)
(***************************************************************************)
\* ratings objects, as Object.entries lists them
RatingSamples ==
    {<<>>,
     <<[dim |-> "financial", rating |-> 1], [dim |-> "emotional", rating |-> 2],
       [dim |-> "physical", rating |-> 4]>>,
     <<[dim |-> "social", rating |-> 3]>>,
     <<[dim |-> "physical", rating |-> 4], [dim |-> "social", rating |-> 5]>>,
     <<[dim |-> "pets", rating |-> 1], [dim |-> "social", rating |-> 2]>>,
     <<[dim |-> "physical", rating |-> 5], [dim |-> "financial", rating |-> 2],
       [dim |-> "emotional", rating |-> 1], [dim |-> "environmental", rating |-> 3],
       [dim |-> "social", rating |-> 4], [dim |-> "occupational", rating |-> 2],
       [dim |-> "intellectual", rating |-> 3], [dim |-> "spiritual", rating |-> 5]>>}

\* a history of n check-ins, the last t of them dated today
CheckinList(n, t) ==
    [i \in 1 .. n |-> [dateOnly |-> IF i > n - t THEN "today" ELSE "earlier"]]

\* userHistory: not sent, null, an object without checkins, an object with
\* a list of check-ins
UserHistories ==
    {[kind |-> "absent"], [kind |-> "null"], [kind |-> "object"]}
    \cup {[kind |-> "object", checkins |-> CheckinList(n, 0)] : n \in 0 .. MaxHistory}
    \cup {[kind |-> "object", checkins |-> CheckinList(n, 2)] : n \in 2 .. MaxHistory}

PreliminaryBodies ==
    {[ratings |-> r, userHistory |-> h] : r \in RatingSamples, h \in UserHistories}
    \cup {[userHistory |-> [kind |-> "absent"]]}

WellnessBodies ==
    {[checkin |-> [ratings |-> r, context |-> c, dateOnly |-> "today"],
      userHistory |-> h, preliminaryInsights |-> p] :
        r \in RatingSamples, c \in {Undefined, "rent is due"},
        h \in UserHistories, p \in {Undefined, "I see your ratings."}}
    \cup {[userHistory |-> [kind |-> "absent"], preliminaryInsights |-> Undefined],
          [checkin |-> [context |-> Undefined, dateOnly |-> "today"],
           userHistory |-> [kind |-> "absent"], preliminaryInsights |-> Undefined]}

\* createPreliminaryPrompt throws: Object.entries(undefined), or
\* userHistory.checkins of null
PreliminaryThrows(body) ==
    "ratings" \notin DOMAIN body \/ body.userHistory.kind = "null"

\* checkin.ratings of undefined, Object.entries(undefined), or
\* userHistory.checkins of null
WellnessThrows(body) ==
    \/ "checkin" \notin DOMAIN body
    \/ "ratings" \notin DOMAIN body.checkin
    \/ body.userHistory.kind = "null"

\* error.message of what is thrown before the fetch
InsightThrownMessage(body) ==
    IF body.userHistory.kind = "null"
    THEN "Cannot read properties of null (reading 'checkins')"
    ELSE IF "checkin" \notin DOMAIN body /\ "ratings" \notin DOMAIN body
    THEN "Cannot read properties of undefined (reading 'ratings')"
    ELSE "Cannot convert undefined or null to object"

InsightThrows(op, body) ==
    IF op = "preliminary" THEN PreliminaryThrows(body) ELSE WellnessThrows(body)

InsightPrompt(op, body) ==
    IF op = "preliminary"
    THEN createPreliminaryPrompt(body.ratings, body.userHistory)
    ELSE createWellnessPrompt(body.checkin, body.userHistory, body.preliminaryInsights)

InsightSuccess(text) ==
    [status |-> HttpOk, success |-> TRUE, response |-> text]

\* mutant: the catch block relays error.message
InsightFailureLeaks(op, message) ==
    [status |-> HttpServerError, success |-> FALSE, error |-> message]

\* the response of the catch block
InsightFailure(op, message) ==
    [status |-> HttpServerError, success |-> FALSE,
     error |-> IF op = "preliminary" THEN "Failed to get preliminary insights"
               ELSE "Failed to get wellness response"]

\* The handler from its entry to the await of fetch (or to the catch block).
\* Requests share nothing, so one request is followed from an idle server.
InsightRequest(op, body) ==
    /\ insPc = "idle"
    /\ insOp' = op
    /\ insBody' = body
    /\ insOutcome' = NoOutcome
    /\ IF InsightThrows(op, body)
       THEN /\ insPrompt' = ""
            /\ insCalls' = 0
            /\ insRes' = InsightFailure(op, InsightThrownMessage(body))
            /\ insResCount' = 1
            /\ insPc' = "done"
       ELSE /\ insPrompt' = InsightPrompt(op, body)
            /\ insCalls' = 1
            /\ insRes' = NoResponse
            /\ insResCount' = 0
            /\ insPc' = "awaitLLM"
    /\ UNCHANGED <<convVars, locVars, resVars, ccVars>>

PreliminaryInsights == \E body \in PreliminaryBodies : InsightRequest("preliminary", body)

WellnessResponse == \E body \in WellnessBodies : InsightRequest("wellness", body)

\* what the handler answers once the fetch has settled
InsightResult(op, outcome) ==
    IF outcome.kind = "ok" THEN InsightSuccess(outcome.text)
    ELSE InsightFailure(op, ThrownMessage(outcome))

\* mutant: a failed call is issued again
InsightLLMSettlesRetrying ==
    /\ insPc = "awaitLLM"
    /\ \E outcome \in LLMOutcomes :
          /\ insOutcome' = outcome
          /\ IF outcome.kind = "ok" \/ insCalls >= 2
             THEN /\ insRes' = InsightResult(insOp, outcome)
                  /\ insResCount' = insResCount + 1
                  /\ insPc' = "done"
                  /\ UNCHANGED insCalls
             ELSE /\ insCalls' = insCalls + 1
                  /\ UNCHANGED <<insRes, insResCount, insPc>>
    /\ UNCHANGED <<insOp, insBody, insPrompt>>
    /\ UNCHANGED <<convVars, locVars, resVars, ccVars>>

\* The handler from the resumption after fetch to its response.
InsightLLMSettles ==
    /\ insPc = "awaitLLM"
    /\ \E outcome \in LLMOutcomes :
          /\ insOutcome' = outcome
          /\ insRes' = InsightResult(insOp, outcome)
    /\ insResCount' = insResCount + 1
    /\ insPc' = "done"
    /\ UNCHANGED <<insOp, insBody, insPrompt, insCalls>>
    /\ UNCHANGED <<convVars, locVars, resVars, ccVars>>

InitIns ==
    /\ insPc = "idle"
    /\ insOp = "preliminary"
    /\ insBody = [userHistory |-> [kind |-> "absent"]]
    /\ insPrompt = ""
    /\ insCalls = 0
    /\ insOutcome = NoOutcome
    /\ insRes = NoResponse
    /\ insResCount = 0

NextIns ==
    \/ PreliminaryInsights
    \/ WellnessResponse
    \/ InsightLLMSettles

(***************************************************************************)
(* Concurrent requests.  Each invocation of an async handler has its own   *)
(* frame of const bindings; a request suspended at its await resumes with  *)
(* the bindings of its own frame.  The file has no module-level binding    *)
(* that a handler assigns.                                                 *)
(***************************************************************************)
Slots == 1 .. NumSlots

\* mutant: the bindings are module-level, one frame for every invocation
FrameShared(r) == 1

\* the frame of the invocation serving request r
Frame(r) == r

ConcContinueBodies ==
    {[userQuestion |-> "q", conversationCount |-> c] : c \in 0 .. MAX_TURNS}
    \cup {[userQuestion |-> "q"]}

ConcSearchBodies ==
    {[concerningAreas |-> <<"financial">>, location |-> l, city |-> Undefined,
      state |-> Undefined, userContext |-> Undefined] : l \in {Undefined, "Oregon"}}

ConcLLMOutcomes ==
    {[kind |-> "ok", text |-> "text-a"],
     [kind |-> "httpError", status |-> "529", body |-> "overloaded_error"],
     [kind |-> "networkError", message |-> "fetch failed"]}

ConcResourceOutcomes ==
    {[kind |-> "ok", text |-> ArrayOf(1)], [kind |-> "noContent"], [kind |-> "httpError"]}

\* some other request is suspended at its outbound call
OthersSuspended(r) == \E q \in Slots \ {r} : reqPc[q] = "awaitLLM"

\* a request enters while others are suspended: all of them overlap
MarkOverlap(r) ==
    reqOverlapped' =
        [q \in Slots |->
            IF q = r THEN OthersSuspended(r)
            ELSE reqOverlapped[q] \/ reqPc[q] = "awaitLLM"]

\* continue-conversation, from its entry to the rejection or to the await
ConcContinue(r, body) ==
    /\ reqPc[r] = "free"
    /\ reqOp' = [reqOp EXCEPT ![r] = "continue"]
    /\ reqBody' = [reqBody EXCEPT ![r] = body]
    /\ frames' = [frames EXCEPT ![Frame(r)].conversationCount = ConversationCountOf(body)]
    /\ MarkOverlap(r)
    /\ IF LimitReached(ConversationCountOf(body))
       THEN /\ reqPc' = [reqPc EXCEPT ![r] = "done"]
            /\ reqRes' = [reqRes EXCEPT ![r] = LimitResponse]
       ELSE /\ reqPc' = [reqPc EXCEPT ![r] = "awaitLLM"]
            /\ UNCHANGED reqRes
    /\ UNCHANGED reqOutcome
    /\ UNCHANGED <<convVars, locVars, resVars, insVars>>

\* search-resources, from its entry to the await
ConcSearch(r, body) ==
    /\ reqPc[r] = "free"
    /\ reqOp' = [reqOp EXCEPT ![r] = "search"]
    /\ reqBody' = [reqBody EXCEPT ![r] = body]
    /\ frames' = [frames EXCEPT ![Frame(r)].locationString = LocationString(body)]
    /\ MarkOverlap(r)
    /\ reqPc' = [reqPc EXCEPT ![r] = "awaitLLM"]
    /\ UNCHANGED <<reqRes, reqOutcome>>
    /\ UNCHANGED <<convVars, locVars, resVars, insVars>>

ConcEnter ==
    \E r \in Slots :
        \/ \E body \in ConcContinueBodies : ConcContinue(r, body)
        \/ \E body \in ConcSearchBodies : ConcSearch(r, body)

\* a suspended request resumes with the outcome of its call and answers
ConcSettles ==
    \E r \in Slots :
        /\ reqPc[r] = "awaitLLM"
        /\ \E outcome \in (IF reqOp[r] = "continue" THEN ConcLLMOutcomes
                           ELSE ConcResourceOutcomes) :
              /\ reqOutcome' = [reqOutcome EXCEPT ![r] = outcome]
              /\ reqRes' = [reqRes EXCEPT ![r] =
                    IF reqOp[r] = "continue"
                    THEN ContinueResult(outcome, frames[Frame(r)].conversationCount)
                    ELSE SearchResult(outcome, frames[Frame(r)].locationString)]
        /\ reqPc' = [reqPc EXCEPT ![r] = "done"]
        /\ UNCHANGED <<reqOp, reqBody, reqOverlapped, frames>>
        /\ UNCHANGED <<convVars, locVars, resVars, insVars>>

InitConc ==
    /\ reqPc = [r \in Slots |-> "free"]
    /\ reqOp = [r \in Slots |-> "continue"]
    /\ reqBody = [r \in Slots |-> [userQuestion |-> "q"]]
    /\ reqOutcome = [r \in Slots |-> NoOutcome]
    /\ reqRes = [r \in Slots |-> NoResponse]
    /\ reqOverlapped = [r \in Slots |-> FALSE]
    /\ frames = [r \in Slots |-> [conversationCount |-> 0, locationString |-> "your area"]]

NextConc ==
    \/ ConcEnter
    \/ ConcSettles

Init == InitConv /\ InitLoc /\ InitRes /\ InitIns /\ InitConc

NextConv ==
    \/ ClientContinue
    \/ CallerContinue
    \/ ContinueLLMSettles

SpecConv == Init /\ [][NextConv]_vars

SpecLoc == Init /\ [][NextLoc]_vars

SpecRes == Init /\ [][NextRes]_vars

SpecIns == Init /\ [][NextIns]_vars

SpecConc == Init /\ [][NextConc]_vars

\* Every route of the server.  Requests share nothing, so the requests of one
\* route are followed at a time, from a server whose other routes are idle.
NextServer ==
    \/ (locPc = "idle" /\ resPc = "idle" /\ curPc = "idle" /\ insPc = "idle") /\ NextConv
    \/ (convPc = "idle" /\ resPc = "idle" /\ curPc = "idle" /\ insPc = "idle") /\ NextLoc
    \/ (convPc = "idle" /\ locPc = "idle" /\ insPc = "idle") /\ NextRes
    \/ (convPc = "idle" /\ locPc = "idle" /\ resPc = "idle" /\ curPc = "idle") /\ NextIns

SpecServer == Init /\ [][NextServer]_vars

\* every outbound call eventually returns or fails
OutboundCallsSettle ==
    /\ WF_vars(ContinueLLMSettles)
    /\ WF_vars(PrimarySettles)
    /\ WF_vars(BackupSettles)
    /\ WF_vars(SearchLLMSettles)
    /\ WF_vars(InsightLLMSettles)

SpecServerLive == SpecServer /\ OutboundCallsSettle

(***************************************************************************)
(* Claims about the continuation turn limit.                               *)
(***************************************************************************)
\* the turn count as the request carries it
SuppliedTurnPresent == "conversationCount" \in DOMAIN convBody

\* C1: a continuation request whose supplied turn count is >= 2 is answered
\* with the limit-reached / upgrade-required result, and no LLM call is
\* issued for it (its call count stays 0).
C1_LimitRejectsWithoutCall ==
    (convPc # "idle" /\ SuppliedTurnPresent /\ convBody.conversationCount >= 2)
        => /\ convPc = "done"
           /\ convRes.success = FALSE
           /\ "requiresUpgrade" \in DOMAIN convRes
           /\ convRes.requiresUpgrade = TRUE
           /\ "response" \notin DOMAIN convRes
           /\ convLLMCalls = 0
           /\ convCall = NoCall

C1_Witness ==
    /\ convPc = "done"
    /\ SuppliedTurnPresent
    /\ convBody.conversationCount = 2
    /\ "requiresUpgrade" \in DOMAIN convRes
    /\ convLLMCalls = 0

\* C2: the check-in's client starts at turn 0 and always sends the count it
\* was last given; whatever the LLM calls do, it is given at most 2
\* continuation texts, and once it has 2 each further request of it is
\* rejected with the limit result and without an LLM call.
C2_AtMostTwoTexts ==
    /\ [](callerTexts <= 2)
    /\ [][(callerTexts = 2 /\ nRequests' = nRequests + 1 /\ convFrom' = "caller")
            => (/\ convPc' = "done"
                /\ "requiresUpgrade" \in DOMAIN convRes'
                /\ "response" \notin DOMAIN convRes'
                /\ convLLMCalls' = 0
                /\ callerTexts' = 2)]_vars

C2_Witness ==
    /\ callerTexts = 2
    /\ convFrom = "caller"
    /\ convPc = "done"
    /\ "requiresUpgrade" \in DOMAIN convRes
    /\ convLLMCalls = 0
    /\ nRequests >= 4

\* C3: a continuation request with a turn count below 2 whose LLM call
\* succeeds is answered with the LLM text and the supplied count plus 1;
\* a request without a count is answered with 1.
C3_SuccessReturnsTurnPlusOne ==
    (convPc = "done" /\ convLLMCalls = 1 /\ convOutcome.kind = "ok")
        => /\ convRes.success = TRUE
           /\ convRes.response = convOutcome.text
           /\ convRes.conversationCount =
                 (IF SuppliedTurnPresent THEN convBody.conversationCount + 1 ELSE 1)

C3_Witness ==
    /\ convPc = "done"
    /\ convOutcome.kind = "ok"
    /\ SuppliedTurnPresent
    /\ convBody.conversationCount = 1
    /\ convRes.success = TRUE
    /\ convRes.conversationCount = 2
    /\ convRes.response = "text-b"

\* C4: every continuation request the handler accepts has a turn count with
\* 0 <= turn < 2, and every new turn count it returns lies in 1..2.
C4_AcceptedTurnInRange ==
    /\ (convPc = "awaitLLM" => (0 <= convCount /\ convCount < 2))
    /\ ("conversationCount" \in DOMAIN convRes => convRes.conversationCount \in 1..2)

(***************************************************************************)
(* Claims about location resolution.                                       *)
(***************************************************************************)
\* loopback and private-range addresses, as the specification lists them
PrivatePrefixes ==
    {"10.", "192.168."}
    \cup {"172." \o n \o "." : n \in {"16", "17", "18", "19", "20", "21", "22", "23",
                                      "24", "25", "26", "27", "28", "29", "30", "31"}}

IsLoopbackOrPrivate(ip) ==
    /\ Truthy(ip)
    /\ \/ ip = "::1"
       \/ StartsWith(ip, "127.")
       \/ \E p \in PrivatePrefixes : StartsWith(ip, p)

\* C5: for an address that is loopback or private after normalization
\* (10.x, 172.16-31.x, 192.168.x, 127.x, ::1) the handler issues no
\* geolocation call and answers detected=false.
C5_PrivateAddressNoLookup ==
    (locPc # "idle" /\ IsLoopbackOrPrivate(locIP))
        => /\ locCalls = <<>>
           /\ locPc = "done"
           /\ "detected" \in DOMAIN locRes
           /\ locRes.detected = FALSE

\* a failure of the primary provider: network error, malformed body, or a
\* body whose status is not the success sentinel
PrimaryFailed(outcome) ==
    \/ outcome.kind \in {"networkError", "notJson", "null"}
    \/ outcome.kind = "body" /\ outcome.body.status # "success"

\* C6: whenever the primary geolocation call fails (network error,
\* non-success status, malformed body), the secondary provider has been
\* called by the time a result is returned.
C6_PrimaryFailureCallsSecondary ==
    (locPc = "done" /\ PrimaryFailed(locPrimary))
        => (Len(locCalls) = 2 /\ locCalls[2] = "secondary")

\* a failure of the secondary provider: error, malformed body, or a body
\* without both a city and a region
SecondaryFailed(outcome) ==
    \/ outcome.kind \in {"networkError", "notJson", "null"}
    \/ outcome.kind = "body"
         /\ (~Truthy(outcome.body.city) \/ ~Truthy(outcome.body.region))

\* C7: when the primary provider failed and the secondary provider failed,
\* the result has detected=false and the placeholder region and city.
C7_BothFailGivesPlaceholder ==
    (locPc = "done" /\ PrimaryFailed(locPrimary) /\ SecondaryFailed(locSecondary))
        => /\ locRes.detected = FALSE
           /\ locRes.state = "Your State"
           /\ locRes.city = "Your City"
           /\ locRes.success = TRUE

C7_Witness ==
    /\ locPc = "done"
    /\ locPrimary.kind = "networkError"
    /\ locSecondary.kind = "body"
    /\ locSecondary.body.city = "Lyon"
    /\ locSecondary.body.region = Undefined
    /\ locCalls = <<"primary", "secondary">>
    /\ locRes.detected = FALSE
    /\ locRes.city = "Your City"

\* C8: every result of detectLocation, on every path, carries a boolean
\* detected flag.
C8_ResultCarriesDetected ==
    locPc = "done" => ("detected" \in DOMAIN locRes /\ locRes.detected \in BOOLEAN)

\* C9: detected=true is returned only when the primary provider returned the
\* success status or the secondary provider gave both a city and a region.
C9_DetectedOnlyOnSuccess ==
    (locPc = "done" /\ "detected" \in DOMAIN locRes /\ locRes.detected = TRUE)
        => \/ (locPrimary.kind = "body" /\ locPrimary.body.status = "success")
           \/ (/\ locSecondary.kind = "body"
               /\ Truthy(locSecondary.body.city)
               /\ Truthy(locSecondary.body.region))

IsStaticFallback(list) ==
    /\ Len(list) = 2
    /\ list[1].url = "https://www.211.org"
    /\ list[2].url = "https://988lifeline.org"

\* the text has a bracketed array substring: a "[" with a "]" after it
HasBracketedSubstring(text) ==
    \E i \in 1 .. Len(text) : \E j \in (i + 1) .. Len(text) :
        text[i] = "[" /\ text[j] = "]"

\* C11: the parser returns the two-entry static fallback when the LLM text
\* has no bracketed array substring, when the substring does not parse, and
\* when it parses to zero items (an empty array).
C11_FallbackInThreeCases ==
    (resPc = "done" /\ resOutcome.kind = "ok"
        /\ \/ ~HasBracketedSubstring(resOutcome.text)
           \/ ~JsonParse(JsonMatch(resOutcome.text)).ok
           \/ Len(JsonParse(JsonMatch(resOutcome.text)).value.array) = 0)
        => IsStaticFallback(resRes.resources)

\* a ResourceItem as the LLM text carries it in its k-th place
ExpectedItem(k) ==
    [title |-> "title-" \o ItemToken(k), description |-> "description-" \o ItemToken(k),
     url |-> "https://" \o ItemToken(k)]

\* the text is a well-formed array of the items 1 .. n, with or without
\* prose around it
IsArrayOfItems(text, n) ==
    \E pre \in {<<>>, <<"prose">>} : \E post \in {<<>>, <<"prose">>} :
        text = pre \o <<"[">>
               \o [i \in 1 .. (2 * n - 1) |-> IF i % 2 = 0 THEN "," ELSE ItemToken((i + 1) \div 2)]
               \o <<"]">> \o post

\* C12: for an LLM text holding a well-formed array of n items the answer is
\* exactly its first min(n, 4) items, in their order.
C12_FirstFourInOrder ==
    \A n \in 1 .. (MaxItems + 1) :
        (resPc = "done" /\ resOutcome.kind = "ok" /\ IsArrayOfItems(resOutcome.text, n))
            => /\ Len(resRes.resources) = (IF n < 4 THEN n ELSE 4)
               /\ \A k \in 1 .. Len(resRes.resources) : resRes.resources[k] = ExpectedItem(k)

C12_Witness ==
    /\ resPc = "done"
    /\ resOutcome.kind = "ok"
    /\ IsArrayOfItems(resOutcome.text, 6)
    /\ resRes.resources = <<ExpectedItem(1), ExpectedItem(2), ExpectedItem(3), ExpectedItem(4)>>

\* C13: every entry of the list searchResources returns has a title, a
\* description and a url, whatever the LLM text is.
C13_ItemsAreValidated ==
    (resPc = "done" /\ "resources" \in DOMAIN resRes)
        => \A k \in 1 .. Len(resRes.resources) :
              {"title", "description", "url"} \subseteq DOMAIN resRes.resources[k]

\* C14: when the LLM call ends with a non-success status or a transport
\* failure, searchResources reports success and returns the two-entry static
\* fallback, never an error result.
C14_ProviderFailureGivesFallback ==
    (resPc = "done" /\ resOutcome.kind \in {"httpError", "networkError"})
        => /\ resRes.success = TRUE
           /\ resRes.status = 200
           /\ "error" \notin DOMAIN resRes
           /\ "resources" \in DOMAIN resRes
           /\ IsStaticFallback(resRes.resources)

C14_Witness ==
    /\ resPc = "done"
    /\ resOutcome.kind = "httpError"
    /\ resCalls = 1
    /\ resRes.success = TRUE
    /\ Len(resRes.resources) = 2
    /\ resRes.resources[1].title = "211 Help Line"

(***************************************************************************)
(* Claims about the search intents and the prompt.                         *)
(***************************************************************************)
\* the request names no location: neither city and state, nor location
NoLocationSupplied(body) ==
    /\ ~(Truthy(body.city) /\ Truthy(body.state))
    /\ ~Truthy(body.location)

\* String.prototype.endsWith
EndsWith(s, suffix) ==
    Len(s) >= Len(suffix) /\ SubSeq(s, Len(s) - Len(suffix) + 1, Len(s)) = suffix

C16_PromptEmbedsIntents ==
    (resPc # "idle" /\ resCalls = 1)
        => \A k \in 1 .. Len(resTerms) : Includes(resPrompt, resTerms[k])

\* the narrative is present and not blank
HasNarrative(body) ==
    /\ Truthy(body.userContext)
    /\ \E i \in 1 .. Len(body.userContext) : SubSeq(body.userContext, i, i) # " "

\* the keyword groups the lower-cased narrative matches
MatchingGroups(body) ==
    IF HasNarrative(body)
    THEN LET lowered == ToLowerCase(body.userContext)
         IN  {g \in 1 .. Len(KeywordTable) :
                \E w \in KeywordTable[g].keywords : Includes(lowered, w)}
    ELSE {}

\* the i-th matching group in table order
NthGroup(groups, i) == CHOOSE g \in groups : Cardinality({h \in groups : h < g}) = i - 1

\* C17: when the lower-cased narrative matches at least one keyword set, the
\* intents are one topic phrase per matching set, all of them, in table
\* order, and no per-category phrase; narrative "rent" with categories
\* [financial, social] gives the rent/financial-assistance phrase.
C17_KeywordPath ==
    resPc # "idle" =>
        LET groups == MatchingGroups(resBody)
        IN  /\ groups # {}
                  => /\ Len(resTerms) = Cardinality(groups)
                     /\ \A i \in 1 .. Len(resTerms) :
                           resTerms[i] = KeywordTable[NthGroup(groups, i)].phrase
                                         \o " " \o resLocation
            /\ resBody.userContext = "rent"
                  => resTerms = <<"emergency financial assistance rent help "
                                  \o resLocation>>

C17_Witness ==
    /\ resPc = "awaitLLM"
    /\ resBody.userContext = "Lost my JOB, rent is due"
    /\ resBody.concerningAreas = <<"financial", "social">>
    /\ resLocation = "Salem, OR"
    /\ resTerms = <<"job search unemployment assistance Salem, OR",
                    "emergency financial assistance rent help Salem, OR">>

\* the category-to-phrase table
CategoryTable ==
    [financial |-> "financial assistance emergency aid",
     occupational |-> "job search career services",
     emotional |-> "mental health support counseling",
     physical |-> "healthcare community health centers",
     social |-> "support groups community resources",
     environmental |-> "housing assistance emergency shelter",
     intellectual |-> "adult education learning resources",
     spiritual |-> "spiritual wellness community support"]

CategoryPhrase(category) ==
    IF category \in DOMAIN CategoryTable THEN CategoryTable[category]
    ELSE "wellness resources"

\* C18: when the narrative is absent, blank or matches no keyword set, the
\* intents are one phrase per supplied category, in the order supplied, from
\* the category table, with the default phrase for an unknown category.
C18_FallbackPath ==
    (resPc # "idle" /\ "concerningAreas" \in DOMAIN resBody /\ MatchingGroups(resBody) = {})
        => /\ Len(resTerms) = Len(resBody.concerningAreas)
           /\ \A i \in 1 .. Len(resTerms) :
                 resTerms[i] = CategoryPhrase(resBody.concerningAreas[i]) \o " " \o resLocation

C18_Witness ==
    /\ resPc = "awaitLLM"
    /\ resBody.userContext = "feeling tired"
    /\ resBody.concerningAreas = <<"emotional", "pets", "physical">>
    /\ resTerms = <<"mental health support counseling your area",
                    "wellness resources your area",
                    "healthcare community health centers your area">>

\* C19: at least one search intent is produced for every input.
C19_AtLeastOneIntent ==
    resPc # "idle" => Len(resTerms) >= 1

\* C20 as claimed: every intent ends with "city, region" when both are
\* known and with "your area" otherwise.
C20_EndsWithCityRegionOrGeneric ==
    resPc # "idle"
        => \A k \in 1 .. Len(resTerms) :
              EndsWith(resTerms[k],
                       IF Truthy(resBody.city) /\ Truthy(resBody.state)
                       THEN " " \o resBody.city \o ", " \o resBody.state
                       ELSE " your area")

\* C20 as amended: every intent ends with "city, region" when both are
\* known, else with the location string the request supplies, else with
\* "your area".
C20_EndsWithLocation ==
    resPc # "idle"
        => \A k \in 1 .. Len(resTerms) :
              EndsWith(resTerms[k],
                       IF Truthy(resBody.city) /\ Truthy(resBody.state)
                       THEN " " \o resBody.city \o ", " \o resBody.state
                       ELSE IF Truthy(resBody.location)
                       THEN " " \o resBody.location
                       ELSE " your area")

C20_Witness ==
    /\ resPc = "awaitLLM"
    /\ resBody.city = "Salem"
    /\ resBody.state = Undefined
    /\ resBody.location = "Oregon"
    /\ resBody.userContext = Undefined
    /\ resTerms = <<"financial assistance emergency aid Oregon",
                    "support groups community resources Oregon">>

(***************************************************************************)
(* Claims about the errors surfaced to the caller.                         *)
(***************************************************************************)
\* the LLM provider answered a non-success status, or the transport failed
ProviderFailed(outcome) == outcome.kind \in {"httpError", "networkError"}

\* no part of the provider's status, error body or transport error in a text
LeaksNothing(text, outcome) ==
    IF outcome.kind = "httpError"
    THEN ~Includes(text, outcome.status) /\ ~Includes(text, outcome.body)
    ELSE ~Includes(text, outcome.message)

\* the single generic failure result of an operation
GenericFailure(message) ==
    [status |-> HttpServerError, success |-> FALSE, error |-> message]

\* C21: for the preliminary, main-response and continuation operations, a
\* non-success status or a transport failure of the LLM provider is answered
\* with one generic failure result (success false, fixed message) that holds
\* no part of the provider's status or error body.
C21_ProviderFailureIsGeneric ==
    /\ (insPc = "done" /\ insCalls = 1 /\ ProviderFailed(insOutcome))
          => /\ insRes = GenericFailure(IF insOp = "preliminary"
                                        THEN "Failed to get preliminary insights"
                                        ELSE "Failed to get wellness response")
             /\ LeaksNothing(insRes.error, insOutcome)
    /\ (convPc = "done" /\ convLLMCalls = 1 /\ ProviderFailed(convOutcome))
          => /\ convRes = GenericFailure("Failed to continue conversation")
             /\ LeaksNothing(convRes.error, convOutcome)

C21_Witness ==
    /\ insPc = "done"
    /\ insOp = "wellness"
    /\ insCalls = 1
    /\ insOutcome.kind = "httpError"
    /\ insOutcome.status = "529"
    /\ insRes.success = FALSE
    /\ insRes.error = "Failed to get wellness response"

\* fragments of the messages of the errors raised inside the server
InternalErrorTexts ==
    {"Cannot read properties", "Cannot convert undefined", "Claude API error",
     "fetch failed"}

\* a result that carries an error carries none of the internal error texts
ErrorIsGeneric(res) ==
    "error" \in DOMAIN res => \A t \in InternalErrorTexts : ~Includes(res.error, t)

\* C22: the error results of all five operations, detectLocation included,
\* are fixed generic messages: none contains the text of an internal or
\* upstream error.
C22_NoInternalErrorText ==
    /\ ErrorIsGeneric(locRes)
    /\ ErrorIsGeneric(insRes)
    /\ ErrorIsGeneric(convRes)
    /\ ErrorIsGeneric(resRes)
    /\ ErrorIsGeneric(curRes)

(***************************************************************************)
(* Claims about the preliminary and the main prompt.                       *)
(***************************************************************************)
\* the ratings of the request being served
RatingsOf(op, body) == IF op = "preliminary" THEN body.ratings ELSE body.checkin.ratings

\* the label table of the builder serving the request
NamesOf(op) == IF op = "preliminary" THEN PreliminaryNames ELSE WellnessNames

\* how many times a label occurs in a prompt
Occurrences(text, label) ==
    Cardinality({i \in 1 .. (Len(text) - Len(label) + 1) :
                    SubSeq(text, i, i + Len(label) - 1) = label})

\* the entries whose dimension has a label
Labelled(op, entries) == SelectSeq(entries, LAMBDA e : e.dim \in DOMAIN NamesOf(op))

\* C23: for ratings with at least one entry <= 2, the preliminary and the
\* main prompt contain the label of every dimension of the input, and list
\* the concerns (entries <= 2) a second time, apart from the full list.
C23_LabelsAndSeparateConcerns ==
    (insPc # "idle" /\ insCalls = 1
       /\ \E i \in 1 .. Len(RatingsOf(insOp, insBody)) :
             RatingsOf(insOp, insBody)[i].rating <= 2)
        => LET entries == Labelled(insOp, RatingsOf(insOp, insBody))
           IN  \A i \in 1 .. Len(entries) :
                  Occurrences(insPrompt, NamesOf(insOp)[entries[i].dim])
                      >= (IF entries[i].rating <= 2 THEN 2 ELSE 1)

\* C24: the main prompt lists the dimensions rated >= 4 as strengths, as it
\* lists the concerns: for {financial: 1, emotional: 2, physical: 4},
\* financial and emotional as concerns and physical as a strength.
C24_StrengthsListed ==
    (insPc # "idle" /\ insCalls = 1 /\ insOp = "wellness")
        => LET entries == Labelled(insOp, insBody.checkin.ratings)
           IN  \A i \in 1 .. Len(entries) :
                  (entries[i].rating <= 2 \/ entries[i].rating >= 4)
                      => Occurrences(insPrompt, WellnessNames[entries[i].dim]) >= 2

\* the number of prior check-ins of the caller-supplied history
PriorCheckins(userHistory) ==
    IF "checkins" \in DOMAIN userHistory THEN Len(userHistory.checkins) ELSE 0

\* C25: the first-time flag is true exactly when the history has no prior
\* check-in; both prompts carry the "make no assumptions" instruction exactly
\* then, and the "may reference previous patterns" instruction otherwise;
\* both builders compute the same flag for the same history.
C25_FirstTimeFlag ==
    (insPc # "idle" /\ insCalls = 1)
        => LET firstTime == PriorCheckins(insBody.userHistory) = 0
           IN  /\ PreliminaryFirstTime(insBody.userHistory) = firstTime
               /\ WellnessFirstTime(insBody.userHistory) = firstTime
               /\ Includes(insPrompt, "CRITICAL: Do NOT make ANY assumptions") = firstTime
               /\ Includes(insPrompt, "You may reference") = ~firstTime

C25_Witness ==
    /\ insPc = "awaitLLM"
    /\ insOp = "wellness"
    /\ PriorCheckins(insBody.userHistory) = 1
    /\ Includes(insPrompt, "You may reference patterns from their previous check-ins")
    /\ ~Includes(insPrompt, "Do NOT make ANY assumptions")

(***************************************************************************)
(* Claims about outbound calls and responses.                              *)
(***************************************************************************)
\* C26: each preliminary, main-response, continuation and resource-search
\* request issues at most one call to the LLM provider on every path; a
\* failed call is not issued again.
C26_AtMostOneLLMCall ==
    /\ insCalls <= 1
    /\ convLLMCalls <= 1
    /\ resCalls <= 1
    /\ (insPc = "done" /\ insOutcome.kind \notin {"none", "ok"}) => insCalls = 1
    /\ (convPc = "done" /\ convOutcome.kind \notin {"none", "ok"}) => convLLMCalls = 1
    /\ (resPc = "done" /\ resOutcome.kind \notin {"none", "ok"}) => resCalls = 1

C26_Witness ==
    /\ insPc = "done"
    /\ insOp = "preliminary"
    /\ insOutcome.kind = "networkError"
    /\ insCalls = 1
    /\ insResCount = 1

\* C27: one detectLocation request issues at most two geolocation calls, one
\* after the other: the secondary provider is called at most once, only when
\* the primary call has completed with a failure, never while the primary
\* call is outstanding and never after the primary succeeded.
C27_SequentialLookups ==
    /\ [](locCalls \in {<<>>, <<"primary">>, <<"primary", "secondary">>})
    /\ [](locPc = "awaitPrimary" => locCalls = <<"primary">>)
    /\ [](Len(locCalls) = 2 => (locPrimary.kind # "none" /\ PrimaryFailed(locPrimary)))
    /\ [][(Len(locCalls') = 2 /\ Len(locCalls) # 2)
            => (locPc = "awaitPrimary" /\ locPc' = "awaitSecondary"
                /\ PrimaryFailed(locPrimary'))]_vars

C27_Witness ==
    /\ locPc = "done"
    /\ locCalls = <<"primary", "secondary">>
    /\ locPrimary.kind = "networkError"
    /\ locSecondary.kind = "body"
    /\ locResCount = 1

\* C29: a continuation whose LLM call fails consumes no turn: the failure
\* result carries no turn count, the count the caller persists stays what it
\* was, and a caller with fewer than 2 successful continuations is never
\* rejected.
C29_FailureConsumesNoTurn ==
    /\ []((convPc = "done" /\ convLLMCalls = 1 /\ convOutcome.kind # "ok")
            => "conversationCount" \notin DOMAIN convRes)
    /\ [](callerTurn = callerTexts)
    /\ [][(convPc = "awaitLLM" /\ convFrom = "caller" /\ convOutcome'.kind # "ok")
            => callerTurn' = callerTurn]_vars
    /\ [][(nRequests' = nRequests + 1 /\ convFrom' = "caller" /\ callerTexts < 2)
            => (convPc' = "awaitLLM" /\ convLLMCalls' = 1)]_vars

C29_Witness ==
    /\ convPc = "done"
    /\ convFrom = "caller"
    /\ convLLMCalls = 1
    /\ convOutcome.kind = "httpError"
    /\ callerTurn = 1
    /\ callerTexts = 1
    /\ nRequests >= 2

\* C30: every request to detectLocation, preliminaryInsight,
\* wellnessResponse, continueConversation and searchResources gets exactly
\* one response on every path, never none and never two, provided each
\* outbound call eventually returns or fails.
C30_ExactlyOneResponse ==
    /\ [](locResCount <= 1 /\ insResCount <= 1 /\ convResCount <= 1 /\ resResCount <= 1)
    /\ [](locPc = "done" => locResCount = 1)
    /\ [](insPc = "done" => insResCount = 1)
    /\ [](convPc = "done" => convResCount = 1)
    /\ [](resPc = "done" => resResCount = 1)
    /\ (locPc \in {"awaitPrimary", "awaitSecondary"}) ~> (locPc = "done" /\ locResCount = 1)
    /\ (insPc = "awaitLLM") ~> (insPc = "done" /\ insResCount = 1)
    /\ (convPc = "awaitLLM") ~> (convPc = "done" /\ convResCount = 1)
    /\ (resPc = "awaitLLM") ~> (resPc = "done" /\ resResCount = 1)

C30_Witness ==
    /\ locPc = "done"
    /\ Len(locCalls) = 2
    /\ locSecondary.kind = "body"
    /\ locRes.success = TRUE
    /\ locRes.detected = TRUE
    /\ locResCount = 1

(***************************************************************************)
(* Claims about concurrent requests.                                       *)
(***************************************************************************)
\* the response of a request served alone, from its body and the outcome of
\* its outbound call
AloneResult(op, body, outcome) ==
    IF op = "continue"
    THEN IF LimitReached(ConversationCountOf(body)) THEN LimitResponse
         ELSE ContinueResult(outcome, ConversationCountOf(body))
    ELSE IF SearchThrowsBeforeCall(body) THEN SearchCaught
         ELSE SearchResult(outcome, LocationString(body))

\* C28: under any interleaving of concurrent requests suspended at their
\* outbound calls, the result of each request is what it is when the request
\* runs alone with the same input and the same provider outcome; a
\* continuation is rejected exactly when its own turn count is 2 or more.
C28_ResultAsIfAlone ==
    \A r \in Slots :
        /\ reqPc[r] = "done" => reqRes[r] = AloneResult(reqOp[r], reqBody[r], reqOutcome[r])
        /\ (reqPc[r] # "free" /\ reqOp[r] = "continue")
              => (("requiresUpgrade" \in DOMAIN reqRes[r])
                    <=> ("conversationCount" \in DOMAIN reqBody[r]
                           /\ reqBody[r].conversationCount >= 2))

C28_Witness ==
    /\ reqPc[1] = "done"
    /\ reqOverlapped[1]
    /\ reqOp[1] = "continue"
    /\ reqBody[1] = [userQuestion |-> "q", conversationCount |-> 0]
    /\ reqOutcome[1].kind = "ok"
    /\ reqRes[1].conversationCount = 1
    /\ reqOp[2] = "continue"
    /\ reqBody[2] = [userQuestion |-> "q", conversationCount |-> 1]
    /\ reqPc[2] = "awaitLLM"

====
